---- MODULE Spec2Model ----
(***************************************************************************)
(* Model of GroceryStoreSimulation (src/simulation.py): the event queue    *)
(* _events, the store _store, the statistics dict stats and the run loop.  *)
(* PriorityQueue (container.py), Event and its subclasses (event.py) and   *)
(* GroceryStore (store.py) are imported by simulation.py but are not part  *)
(* of src/; they are modelled from their documented contracts.             *)
(***************************************************************************)
EXTENDS Integers, Sequences, FiniteSets, TLC

\* ---------------------------------------------------------------- bounds
\* Timestamps range over 0..MaxTime.
MaxTime == 2
\* Events created (and therefore added to the queue) since construction.
MaxEvents == 3
\* Longest list initial_events passed to one call of run.
MaxInit == 2
\* Longest list of successor events one call of do returns.
MaxSucc == 2
\* Calls of run on one driver.
MaxRuns == 2

\* ---------------------------------------------------------------- values
Customers == {"A", "B"}
NoCustomer == "-"
Times == 0..MaxTime

\* The event classes isinstance distinguishes (lines 74, 80); "Other" is any
\* other Event subclass.
ArrivalKind == "CustomerArrival"
CompletedKind == "CheckoutCompleted"
OtherKind == "Other"

\* The events that can be created with a timestamp of at least t.
EventsFrom(t) ==
    [kind : {ArrivalKind, CompletedKind}, customer : Customers, timestamp : t..MaxTime]
    \cup [kind : {OtherKind}, customer : {NoCustomer}, timestamp : t..MaxTime]

SeqsUpTo(S, n) == UNION {[1..k -> S] : k \in 0..n}

Min2(a, b) == IF a < b THEN a ELSE b

\* An event instance: the payload plus the identity of the object. Instances
\* are numbered in the order they are added to the queue.
Stamp(p, n) == [kind |-> p.kind, customer |-> p.customer, timestamp |-> p.timestamp, id |-> n]

\* ---------------------------------------------------------------- state
VARIABLES
    events,     \* self._events: the pending events, in removal order
    store,      \* self._store: the number of events executed against it
    stats,      \* self.stats
    customers,  \* run's local dict customers: customer -> list of timestamps
    pc,         \* "idle" | "loop" | "done" | "raised"
    raisedAt,   \* the exception that ended the last run, or "none"
    runs,       \* calls of run so far
    nAdd,       \* calls of add since construction
    nRem,       \* calls of remove since construction
    removed,    \* the events removed (in run: removed and executed), in order
    initial,    \* ids of the initial_events of the current run
    succCount,  \* successor events returned by do in the current run
    early       \* some add carried a timestamp below an already removed event's

vars == <<events, store, stats, customers, pc, raisedAt, runs, nAdd, nRem,
          removed, initial, succCount, early>>

ZeroStats == [num_customers |-> 0, total_time |-> 0, max_wait |-> 0]
EmptyDict == [c \in {} |-> <<>>]

\* ---------------------------------------------------------------- queue
\* Event.__lt__: events compare by timestamp.
lt(e1, e2) == e1.timestamp < e2.timestamp

is_empty(q) == Len(q) = 0

\* add as a queue that puts an item in front of the items equal to it.
add_before_equal(q, e) ==
    LET k == Cardinality({i \in 1..Len(q) : lt(q[i], e)})
    IN  SubSeq(q, 1, k) \o <<e>> \o SubSeq(q, k + 1, Len(q))

\* add as a plain list append.
add_at_end(q, e) == Append(q, e)

\* PriorityQueue.add: the item goes behind every item that is not greater.
add(q, e) ==
    LET k == Cardinality({i \in 1..Len(q) : ~lt(e, q[i])})
    IN  SubSeq(q, 1, k) \o <<e>> \o SubSeq(q, k + 1, Len(q))

\* PriorityQueue.remove: returns the first item and evicts it.
remove_item(q) == Head(q)
\* remove as a peek: the item is returned but stays in the queue.
remove_rest_peek(q) == q
remove_rest(q) == Tail(q)

\* for x in xs: q.add(x), the items numbered from n + 1 on.
RECURSIVE add_all(_, _, _)
add_all(q, xs, n) ==
    IF xs = <<>> THEN q
    ELSE add_all(add(q, Stamp(Head(xs), n + 1)), Tail(xs), n + 1)

Init ==
    /\ events = <<>>
    /\ store = 0
    /\ stats = ZeroStats
    /\ customers = EmptyDict
    /\ pc = "idle"
    /\ raisedAt = "none"
    /\ runs = 0
    /\ nAdd = 0
    /\ nRem = 0
    /\ removed = <<>>
    /\ initial = {}
    /\ succCount = 0
    /\ early = FALSE

\* ---------------------------------------------------------------- run
\* The loop as while True.
LoopCond_always(q) == TRUE

\* Line 69: while not self._events.is_empty()
LoopCond(q) == ~is_empty(q)

\* The loop putting the removed event back along with its successors.
Requeue_with_event(q, event, new, n) == add_all(add(q, event), new, n)

\* Lines 72-73: for n in new: self._events.add(n). The removed event itself
\* is not among the events added.
Requeue(q, event, new, n) == add_all(q, new, n)

\* The arrival branch as customers = {customer: [arrive_time]}.
RecordArrival_replace(cs, e) ==
    IF e.kind = ArrivalKind /\ e.customer \notin DOMAIN cs
    THEN [c \in {e.customer} |-> <<e.timestamp>>]
    ELSE cs

\* The arrival branch without the test of line 77.
RecordArrival_overwrite(cs, e) ==
    IF e.kind = ArrivalKind
    THEN [c \in DOMAIN cs \cup {e.customer} |->
            IF c = e.customer THEN <<e.timestamp>> ELSE cs[c]]
    ELSE cs

\* Lines 74-78: the first arrival of a customer records [arrive_time].
RecordArrival(cs, e) ==
    IF e.kind = ArrivalKind /\ e.customer \notin DOMAIN cs
    THEN [c \in DOMAIN cs \cup {e.customer} |->
            IF c = e.customer THEN <<e.timestamp>> ELSE cs[c]]
    ELSE cs

\* Line 79 indented into the arrival branch of line 74.
SetTotalTime_in_arrival(st, e) ==
    IF e.kind = ArrivalKind THEN [st EXCEPT !.total_time = e.timestamp] ELSE st

\* Line 79: self.stats['total_time'] = event.timestamp
SetTotalTime(st, e) == [st EXCEPT !.total_time = e.timestamp]

\* Line 83: customers[customer] raises KeyError for an unrecorded customer.
AppendRaises(cs, e) == e.kind = CompletedKind /\ e.customer \notin DOMAIN cs

\* Lines 80-83: customers[customer].append(checkout_time)
RecordCompleted(cs, e) ==
    IF e.kind = CompletedKind
    THEN [cs EXCEPT ![e.customer] = Append(@, e.timestamp)]
    ELSE cs

\* Line 86: customers[customer][1] raises IndexError for a list of length 1.
IndexRaises(cs) == \E c \in DOMAIN cs : Len(cs[c]) < 2

\* Line 87 with the comparison reversed: max_time > time.
MaxWait_reversed(cs) ==
    LET S == {cs[c][2] - cs[c][1] : c \in DOMAIN cs} \cup {0}
    IN  CHOOSE m \in S : \A x \in S : m <= x

\* Lines 84-88: max_time starts at 0 and is raised by every larger
\* customers[customer][1] - customers[customer][0].
MaxWait(cs) ==
    LET S == {cs[c][2] - cs[c][1] : c \in DOMAIN cs} \cup {0}
    IN  CHOOSE m \in S : \A x \in S : x <= m

\* Line 90: len(customers)
NumCustomers(cs) == Cardinality(DOMAIN cs)

\* Event.do(store), its return value: new events, none of them earlier than
\* the event itself (successors are future events).
Successors(event, budget) == SeqsUpTo(EventsFrom(event.timestamp), budget)

\* Event.do(store), its effect: the store has had one more event applied.
do_store(st, event) == st + 1

\* run without the reset of line 64.
ResetStats_keep(st) == st

\* Line 64: self.stats = {'num_customers': 0, 'total_time': 0, 'max_wait': 0}
ResetStats(st) == ZeroStats

\* Lines 58-59, the precondition of run: no two CustomerArrival events of
\* initial_events are for the same customer.
ValidInitial(batch) ==
    \A i, j \in 1..Len(batch) :
        (/\ batch[i].kind = ArrivalKind
         /\ batch[j].kind = ArrivalKind
         /\ batch[i].customer = batch[j].customer) => i = j

\* run with a store made anew at each call.
RunCall_fresh_store(batch) ==
    /\ pc \in {"idle", "done", "raised"}
    /\ ValidInitial(batch)
    /\ runs < MaxRuns
    /\ runs' = runs + 1
    /\ stats' = ResetStats(stats)
    /\ events' = add_all(events, batch, nAdd)
    /\ nAdd' = nAdd + Len(batch)
    /\ initial' = (nAdd + 1)..(nAdd + Len(batch))
    /\ customers' = EmptyDict
    /\ removed' = <<>>
    /\ succCount' = 0
    /\ pc' = "loop"
    /\ raisedAt' = "none"
    /\ store' = 0
    /\ UNCHANGED <<nRem, early>>

\* Lines 64-68: reset the statistics, add the initial events, customers = {}.
\* run may be called again after a run that returned or raised.
RunCall(batch) ==
    /\ pc \in {"idle", "done", "raised"}
    /\ ValidInitial(batch)
    /\ runs < MaxRuns
    /\ runs' = runs + 1
    /\ stats' = ResetStats(stats)
    /\ events' = add_all(events, batch, nAdd)
    /\ nAdd' = nAdd + Len(batch)
    /\ initial' = (nAdd + 1)..(nAdd + Len(batch))
    /\ customers' = EmptyDict
    /\ removed' = <<>>
    /\ succCount' = 0
    /\ pc' = "loop"
    /\ raisedAt' = "none"
    /\ UNCHANGED <<store, nRem, early>>

\* Lines 69-83: one iteration of the while loop.
Iterate ==
    /\ pc = "loop"
    /\ LoopCond(events)
    /\ nRem' = nRem + 1
    /\ IF is_empty(events)
       THEN \* PriorityQueue.remove on an empty queue fails
            /\ pc' = "raised"
            /\ raisedAt' = "EmptyQueue"
            /\ UNCHANGED <<events, store, stats, customers, runs, nAdd,
                           removed, initial, succCount, early>>
       ELSE LET event == remove_item(events)
                arrived == RecordArrival(customers, event)
            IN  \E new \in Successors(event, Min2(MaxSucc, MaxEvents - nAdd)) :
                    /\ store' = do_store(store, event)
                    /\ events' = Requeue(remove_rest(events), event, new, nAdd)
                    /\ nAdd' = nAdd + Len(new)
                    /\ succCount' = succCount + Len(new)
                    /\ removed' = Append(removed, event)
                    /\ stats' = SetTotalTime(stats, event)
                    /\ IF AppendRaises(arrived, event)
                       THEN /\ customers' = arrived
                            /\ pc' = "raised"
                            /\ raisedAt' = "KeyError"
                       ELSE /\ customers' = RecordCompleted(arrived, event)
                            /\ UNCHANGED <<pc, raisedAt>>
                    /\ UNCHANGED <<runs, initial, early>>

\* Lines 84-90: the loop has ended; fold the per-customer timestamps.
Finish ==
    /\ pc = "loop"
    /\ ~LoopCond(events)
    /\ IF IndexRaises(customers)
       THEN /\ pc' = "raised"
            /\ raisedAt' = "IndexError"
            /\ UNCHANGED stats
       ELSE /\ pc' = "done"
            /\ stats' = [stats EXCEPT !.max_wait = MaxWait(customers),
                                      !.num_customers = NumCustomers(customers)]
            /\ UNCHANGED raisedAt
    /\ UNCHANGED <<events, store, customers, runs, nAdd, nRem, removed,
                   initial, succCount, early>>

Next ==
    \/ \E batch \in SeqsUpTo(EventsFrom(0), Min2(MaxInit, MaxEvents - nAdd)) : RunCall(batch)
    \/ Iterate
    \/ Finish

Spec == Init /\ [][Next]_vars

\* ---------------------------------------------------------------- queue alone
\* The queue driven directly through its interface: add and remove in any
\* order, remove only on a non-empty queue (its precondition). The queue
\* looks at an item only through lt, so items of one kind are enough.
QueueItems == [kind : {OtherKind}, customer : {NoCustomer}, timestamp : Times]

QAdd(p) ==
    /\ nAdd < MaxEvents
    /\ events' = add(events, Stamp(p, nAdd + 1))
    /\ nAdd' = nAdd + 1
    /\ early' = (early \/ \E i \in 1..Len(removed) : p.timestamp < removed[i].timestamp)
    /\ UNCHANGED <<store, stats, customers, pc, raisedAt, runs, nRem, removed,
                   initial, succCount>>

QRemove ==
    /\ ~is_empty(events)
    /\ removed' = Append(removed, remove_item(events))
    /\ events' = remove_rest(events)
    /\ nRem' = nRem + 1
    /\ UNCHANGED <<store, stats, customers, pc, raisedAt, runs, nAdd,
                   initial, succCount, early>>

QNext ==
    \/ \E p \in QueueItems : QAdd(p)
    \/ QRemove

QSpec == Init /\ [][QNext]_vars

\* ---------------------------------------------------------------- properties
Last(s) == s[Len(s)]

\* The removal order of the queue: event order first, insertion sequence second.
Before(e1, e2) == lt(e1, e2) \/ (~lt(e2, e1) /\ e1.id < e2.id)

NonDecreasing(s) == \A i \in 1..(Len(s) - 1) : s[i].timestamp <= s[i + 1].timestamp

\* C1: every remove returns a pending event that comes before every other
\* pending event in (event order, insertion order): the minimum, and among
\* events of equal timestamp the one added first; only that event leaves the
\* queue.
C1_RemoveReturnsMinimum ==
    [][nRem' = nRem + 1 =>
        /\ Len(removed') = Len(removed) + 1
        /\ \E i \in 1..Len(events) : events[i] = Last(removed')
        /\ \A i \in 1..Len(events) :
              events[i].id # Last(removed').id => Before(Last(removed'), events[i])
        /\ {events'[i] : i \in 1..Len(events')}
              = {events[i] : i \in 1..Len(events)} \ {Last(removed')}
        /\ Len(events') = Len(events) - 1]_vars

\* C1 witness: an event was removed while an event of the same timestamp,
\* added later, stayed pending.
C1_Witness ==
    /\ Len(removed) > 0
    /\ \E i \in 1..Len(events) :
          /\ events[i].timestamp = Last(removed).timestamp
          /\ events[i].id > Last(removed).id
    /\ \E i \in 1..Len(events) : events[i].id < Last(removed).id

\* C2 as stated: the removed events are non-decreasing by timestamp, whatever
\* the order of the add and remove calls.
C2_RemovedNonDecreasing == NonDecreasing(removed)

\* C2 amended: the removed events are non-decreasing by timestamp as long as
\* no add carried a timestamp below that of an event already removed.
C2_NonDecreasingWithoutEarlyAdd == ~early => NonDecreasing(removed)

\* C2 witness: two events removed in the opposite order of their insertion,
\* then a third, with no early add.
C2_Witness ==
    /\ ~early
    /\ Len(removed) >= 3
    /\ removed[1].id > removed[2].id
    /\ removed[1].timestamp < removed[3].timestamp

\* C3: is_empty() is true exactly when as many events were removed as added.
C3_EmptyIffCallsBalance == is_empty(events) <=> (nAdd - nRem = 0)

\* C3 witness: the queue is empty again after adds and removes.
C3_Witness == is_empty(events) /\ nAdd >= 2 /\ nRem >= 2

\* What the events executed in the current run say, read off the log.
RunEnded == pc \in {"done", "raised"}
LoopEnded == pc = "done" \/ (pc = "raised" /\ raisedAt = "IndexError")

Positions(kind, c) ==
    {i \in 1..Len(removed) : removed[i].kind = kind /\ removed[i].customer = c}
MinOf(S) == CHOOSE m \in S : \A x \in S : m <= x
MaxOf(S) == CHOOSE m \in S : \A x \in S : x <= m

Arrived == {c \in Customers : Positions(ArrivalKind, c) # {}}
Completed == {c \in Customers : Positions(CompletedKind, c) # {}}
Paired == Arrived \cap Completed

\* The wait of a customer: first executed completion minus first executed arrival.
WaitOf(c) ==
    removed[MinOf(Positions(CompletedKind, c))].timestamp
        - removed[MinOf(Positions(ArrivalKind, c))].timestamp

ExpectedMaxWait == IF Paired = {} THEN 0 ELSE MaxOf({WaitOf(c) : c \in Paired})

RemovedIds == {removed[i].id : i \in 1..Len(removed)}
PendingIds == {events[i].id : i \in 1..Len(events)}

\* C4: the loop calls remove only on a non-empty queue, and no run ends with
\* the queue's empty-queue failure.
C4_RemoveOnlyWhenNonEmpty ==
    [][nRem' = nRem + 1 => (~is_empty(events) /\ raisedAt' # "EmptyQueue")]_vars

\* C4 witness: the loop emptied the queue by removes, successors included,
\* and is about to test is_empty again.
C4_Witness ==
    /\ pc = "loop"
    /\ is_empty(events)
    /\ Len(removed) >= 2
    /\ succCount > 0

\* C5 as stated: a run whose initial events produce no successor executes
\* exactly its N initial events, and total_time is their largest timestamp.
C5_ExactlyInitialExecuted ==
    (RunEnded /\ succCount = 0) =>
        /\ Len(removed) = Cardinality(initial)
        /\ RemovedIds = initial
        /\ initial # {} =>
              stats.total_time = MaxOf({removed[i].timestamp : i \in 1..Len(removed)})

\* C6: no event instance is removed and executed twice in a run, and an
\* executed event is never pending again.
C6_ExecutedAtMostOnce ==
    /\ \A i, j \in 1..Len(removed) : removed[i].id = removed[j].id => i = j
    /\ RemovedIds \cap PendingIds = {}

\* C6 witness: a run that returned after executing initial and successor events.
C6_Witness == pc = "done" /\ Len(removed) >= 3 /\ succCount > 0

\* C7: after run returns, num_customers is the number of distinct customers
\* among the executed arrival events.
C7_NumCustomersDistinct == pc = "done" => stats.num_customers = Cardinality(Arrived)

\* C7 witness: a run that returned after two arrivals of one customer at
\* different timestamps, and counts that customer once.
C7_Witness ==
    /\ pc = "done"
    /\ stats.num_customers = 1
    /\ \E i, j \in Positions(ArrivalKind, "A") :
          removed[i].timestamp # removed[j].timestamp

C9_IncompleteCustomerExcluded ==
    (LoopEnded /\ Arrived \ Completed # {}) =>
        (pc = "done" /\ stats.max_wait = ExpectedMaxWait)

\* C10: once an event has been executed in a run, total_time is the
\* timestamp of the last executed event; before that it is 0.
C10_TotalTimeIsLastExecuted ==
    pc # "idle" =>
        stats.total_time = (IF removed = <<>> THEN 0 ELSE Last(removed).timestamp)

\* C10 witness: a run that returned whose last executed event is not an
\* arrival, and whose total_time is above 0.
C10_Witness ==
    /\ pc = "done"
    /\ Len(removed) >= 2
    /\ Last(removed).kind # ArrivalKind
    /\ stats.total_time > 0

\* The statistics as the events executed in the current run alone determine
\* them: num_customers and max_wait are written only when run returns.
ExpectedStats ==
    [num_customers |-> IF pc = "done" THEN Cardinality(Arrived) ELSE 0,
     total_time |-> IF removed = <<>> THEN 0 ELSE Last(removed).timestamp,
     max_wait |-> IF pc = "done" THEN ExpectedMaxWait ELSE 0]

\* Events executed by earlier calls of run.
ExecutedBefore == nRem - Len(removed)

\* C11: after a second (or later) run has ended, the three statistics are
\* what the events executed in that run determine; nothing of the earlier
\* run remains in them.
C11_SecondRunOverwrites == (runs >= 2 /\ RunEnded) => stats = ExpectedStats

\* C11 witness: a second run returned after executing an event, the first
\* run having executed two.
C11_Witness ==
    /\ runs = 2
    /\ pc = "done"
    /\ ExecutedBefore >= 2
    /\ Len(removed) >= 1

\* The events created by the current call of run: its initial events and the
\* successors its do calls returned.
RunIds == (nAdd - Cardinality(initial) - succCount + 1)..nAdd

\* C12: every event a run executes is one of its initial events or a
\* successor produced in it, never an event an earlier run left pending.
C12_ExecutesOnlyOwnEvents == pc # "idle" => RemovedIds \subseteq RunIds

\* C13: run([]) executes no event and leaves the three statistics at 0.
C13_EmptyRunLeavesZero ==
    (pc # "idle" /\ initial = {}) =>
        /\ removed = <<>>
        /\ stats = ZeroStats

\* C14: the loop of run ends only when the queue is empty, and it ends in
\* the drained state: run returns.
C14_LoopEndsOnlyDrained ==
    [][(pc = "loop" /\ pc' # "loop") => (is_empty(events') /\ pc' = "done")]_vars

\* C15: while run is executing events, all three statistics reflect the
\* events handled so far.
C15_StatsFollowEachEvent ==
    pc = "loop" =>
        /\ stats.total_time = (IF removed = <<>> THEN 0 ELSE Last(removed).timestamp)
        /\ stats.num_customers = Cardinality(Arrived)
        /\ stats.max_wait = ExpectedMaxWait

RemovedTimes == {removed[i].timestamp : i \in 1..Len(removed)}

\* C16: within a run the timestamps of the executed events never decrease,
\* successors included, so total_time is the largest timestamp executed so
\* far in the run.
C16_TimeMovesForward ==
    pc # "idle" =>
        /\ \A i, j \in 1..Len(removed) :
              i < j => removed[i].timestamp <= removed[j].timestamp
        /\ removed # <<>> => stats.total_time = MaxOf(RemovedTimes)

\* C16 witness: a run that returned after executing a successor between two
\* initial events, at three different timestamps.
C16_Witness ==
    /\ pc = "done"
    /\ Len(removed) = 3
    /\ removed[2].id \notin initial
    /\ removed[3].id \in initial
    /\ removed[1].timestamp < removed[2].timestamp
    /\ removed[2].timestamp < removed[3].timestamp

\* The successor events the do calls of the current run returned.
SuccIds == (nAdd - succCount + 1)..nAdd

\* Each successor is in the queue from the iteration that produced it until
\* it is executed, and events of equal timestamp wait in the order added.
SuccessorsQueued ==
    /\ SuccIds \subseteq (RemovedIds \cup PendingIds)
    /\ \A i, j \in 1..Len(events) : i < j => Before(events[i], events[j])

\* C17: every successor do returns is added to the queue, in the returned
\* order, before the next remove, and is executed later in the same run.
C17_SuccessorsExecutedInRun ==
    pc # "idle" =>
        /\ SuccessorsQueued
        /\ RunEnded => SuccIds \subseteq RemovedIds

\* The customers with more than one executed arrival in the current run.
Rearrived == {c \in Customers : Cardinality(Positions(ArrivalKind, c)) >= 2}

FirstArrival(c) == removed[MinOf(Positions(ArrivalKind, c))].timestamp

\* C18: a second arrival of a recorded customer does not make the loop fail
\* (the loop fails only on a completion), the recorded arrival timestamp of
\* every customer stays that of the first executed arrival, with the
\* completions recorded behind it, and when run returns max_wait is taken
\* from that first arrival.
C18_FirstArrivalKept ==
    pc \in {"loop", "done", "raised"} =>
        /\ raisedAt = "KeyError" => Last(removed).kind = CompletedKind
        /\ DOMAIN customers = Arrived
        /\ \A c \in DOMAIN customers :
              /\ customers[c][1] = FirstArrival(c)
              /\ Len(customers[c]) = 1 + Cardinality(Positions(CompletedKind, c))
        /\ (pc = "done" /\ Rearrived # {}) =>
              stats.max_wait = MaxOf({customers[c][2] - FirstArrival(c) : c \in Arrived})

\* C18 witness: a run that returned after a customer arrived, arrived again
\* at a later timestamp and then completed; max_wait is counted from the
\* first arrival and is larger than the wait counted from the second.
C18_Witness ==
    /\ pc = "done"
    /\ \E c \in Rearrived :
          \E i \in Positions(ArrivalKind, c), k \in Positions(CompletedKind, c) :
              /\ i < k
              /\ removed[i].timestamp > FirstArrival(c)
              /\ stats.max_wait = removed[k].timestamp - FirstArrival(c)
              /\ stats.max_wait > removed[k].timestamp - removed[i].timestamp

\* C19: the store changes only inside an event's do: at every point it holds
\* the effect of exactly one do per event removed since the driver was
\* constructed, through run's reset, enqueueing, removal and folding steps and
\* from one run to the next.
C19_StoreChangesOnlyInDo == store = ExecutedBefore + Len(removed)

\* C19 witness: a second run has executed an event on the store that the
\* events of the first run had already changed.
C19_Witness ==
    /\ runs = 2
    /\ pc = "done"
    /\ ExecutedBefore >= 1
    /\ Len(removed) >= 1
    /\ store = ExecutedBefore + Len(removed)


\* C20: every completion event executed in a run has its customer recorded by
\* an arrival executed earlier in the same run, and the append of the
\* completion timestamp does not fail.
C20_CompletionAfterArrival ==
    pc # "idle" =>
        /\ raisedAt # "KeyError"
        /\ \A k \in 1..Len(removed) :
              removed[k].kind = CompletedKind =>
                  \E i \in 1..(k - 1) :
                      /\ removed[i].kind = ArrivalKind
                      /\ removed[i].customer = removed[k].customer

====
